---- MODULE Spec2Model ----
(***************************************************************************)
(* Felt: the integration test of the rocket-SFML bridge                    *)
(* (python/felt/tests/lib/test_SimpleWindow.py) and the three build        *)
(* descriptors (legacy/python/felt/setup.py = variant A,                   *)
(* python/felt/setup.py = variant B, scripts/felt/setup.py = variant C).   *)
(*                                                                         *)
(* Text is a sequence of one-character strings, a path a sequence of       *)
(* tokens in which "/" is the separator.  The absent value (Python's None) *)
(* of an object is a record whose is_none field is TRUE.                   *)
(***************************************************************************)
EXTENDS Integers, Sequences, FiniteSets, TLC

VARIABLES
    \* ---- the integration test ----
    pc,          \* the line of the test about to execute
    frames,      \* the call stack, outermost frame first
    locals,      \* per frame, the objects bound to its local names, in binding order
    released,    \* the objects whose last reference was dropped, in order of release
    calls,       \* the calls made so far, in order
    window,      \* sf.RenderWindow
    rktSFML,     \* the bridge adapter
    context,     \* the rocket context
    document,    \* the value LoadDocument returned
    exc,         \* the exception in flight
    outcome,     \* what the test runner reports
    blank_rml,   \* the content of assets/blank.rml
    fileExists,  \* whether assets/blank.rml can be loaded
    \* ---- the build descriptors ----
    env,         \* the environment: PROJECT_DIR and PROJECT_ROOT
    bpc,         \* per variant, the statement of the descriptor about to execute
    project_dir, \* per variant, the module-level name project_dir
    extensions,  \* per variant, the extension list built so far
    setupCall,   \* per variant, the arguments setup/cythonize was called with
    artifacts,   \* per variant, the artifacts the packaging step wrote
    raisedAt     \* per variant, the line at which the descriptor raised (0: none)

testVars  == <<pc, frames, locals, released, calls, window, rktSFML, context,
               document, exc, outcome, blank_rml, fileExists>>
buildVars == <<env, bpc, project_dir, extensions, setupCall, artifacts, raisedAt>>
vars      == <<testVars, buildVars>>

\* ------------------------------------------------------------------ bounds

\* The longest run of whitespace before and after the text of blank.rml.
MaxPad == 1

\* ------------------------------------------------------------------ text

Whitespace == {" ", "\n", "\t"}

ThisIsBlank == <<"T","h","i","s"," ","i","s"," ","b","l","a","n","k">>

\* Another document body, for the runs in which the text does not match.
OtherText == <<"T","h","i","s"," ","i","s"," ","n","o","t">>

RECURSIVE LStrip(_)
LStrip(s) == IF s # <<>> /\ Head(s) \in Whitespace THEN LStrip(Tail(s)) ELSE s

RECURSIVE RStrip(_)
RStrip(s) ==
    IF s # <<>> /\ s[Len(s)] \in Whitespace THEN RStrip(SubSeq(s, 1, Len(s) - 1)) ELSE s

\* A strip that forgets the trailing whitespace.
StripLeftOnly(s) == LStrip(s)

\* str.strip(): leading and trailing whitespace removed, inner whitespace kept.
Strip(s) == RStrip(LStrip(s))

Pads == UNION {[1..n -> Whitespace] : n \in 0..MaxPad}

\* ------------------------------------------------------------------ objects

Width  == 640
Height == 480

NoWindow   == [is_none |-> TRUE, size |-> <<0, 0>>, is_open |-> FALSE,
               cleared |-> FALSE, displayed |-> FALSE]
NoAdapter  == [is_none |-> TRUE, window |-> FALSE, context |-> FALSE, debugger |-> FALSE]
NoContext  == [is_none |-> TRUE, size |-> <<0, 0>>, updated |-> FALSE, rendered |-> FALSE]
NoDocument == [is_none |-> TRUE, inner_rml |-> <<>>, shown |-> FALSE]

\* The frame whose local name holds each object: the window and the adapter are
\* locals of the test function, the context and the document of doDefaultContext.
FrameAllInTest(obj) == "test"

FrameOf(obj) ==
    IF obj \in {"context", "document"} THEN "doDefaultContext" ELSE "test"

Bind(obj) == [locals EXCEPT ![FrameOf(obj)] = Append(@, obj)]

Called(c) == \E i \in 1..Len(calls) : calls[i] = c

Count(c) == Cardinality({i \in 1..Len(calls) : calls[i] = c})

\* ------------------------------------------------------------------ paths

Variants == {"A", "B", "C"}

\* The absent value of os.environ.get, and a value that is set.
Unset == [is_none |-> TRUE, path |-> <<>>]
Set(p) == [is_none |-> FALSE, path |-> p]

Repo == <<"/", "repo">>

\* The roots the environment may hold: the empty string, /repo and /repo/.
Roots == {<<>>, Repo, Repo \o <<"/">>}

\* A join that puts no separator between its parts.
PathJoinNoSep(a, b) == a \o b

\* posixpath.join(a, b) of two strings.
PathJoin(a, b) ==
    IF b # <<>> /\ Head(b) = "/" THEN b
    ELSE IF a = <<>> \/ a[Len(a)] = "/" THEN a \o b
    ELSE a \o <<"/">> \o b

\* os.path.join(project_dir, rel): a join against None raises.
Join(root, rel) ==
    [raises |-> root.is_none,
     path   |-> IF root.is_none THEN <<>> ELSE PathJoin(root.path, rel)]

IsPrefix(p, q) == Len(p) <= Len(q) /\ SubSeq(q, 1, Len(p)) = p

\* The directory of a path: the path without its last component.
Dirname(p) == IF Len(p) < 2 THEN <<>> ELSE SubSeq(p, 1, Len(p) - 2)

Range(s) == {s[i] : i \in 1..Len(s)}

\* ------------------------------------------------------------------ descriptors

\* The environment variable each descriptor reads at line 6.
RootVar(v) == IF v = "C" THEN "PROJECT_ROOT" ELSE "PROJECT_DIR"

StubSource   == <<"tests", "/", "lib", "/", "PyStubTemplate.pyx">>
BridgeSource == <<"lib", "/", "PyRktSFMLInterface.pyx">>

\* line 15: the stub's include directory, relative to the root.
StubIncludeRel(v) == IF v = "C" THEN <<"src", "/", "tests">> ELSE <<"tests">>

\* lines 25-26: the bridge's include directories, relative to the root.
BridgeIncludeRels(v) ==
    IF v = "C" THEN << <<"include">>, <<"vendor", "/", "include">> >>
    ELSE << <<"include">>, <<"libFelt">> >>

\* lines 29-30: the bridge's library directories, relative to the root.
BridgeLibraryRels(v) ==
    IF v = "C" THEN << <<"lib">>, <<"vendor", "/", "lib">> >>
    ELSE << <<"lib", "/", "rocket", "/", "lib">>, <<"libFelt", "/", ".libs">> >>

\* Variant C's copy of the list having lost the debugger library.
BridgeLibrariesDiverged(v) ==
    IF v = "C"
    THEN <<"RktSFMLInterface", "RocketCore", "RocketControls",
           "sfml-window", "sfml-system", "sfml-graphics">>
    ELSE <<"Felt", "RocketCore", "RocketControls",
           "RocketDebugger", "sfml-window", "sfml-system", "sfml-graphics">>

\* lines 32-36: the libraries the bridge module links.
BridgeLibraries(v) ==
    << IF v = "C" THEN "RktSFMLInterface" ELSE "Felt", "RocketCore", "RocketControls",
       "RocketDebugger", "sfml-window", "sfml-system", "sfml-graphics" >>

\* line 48: the output directory handed to cythonize, relative to the root.
OutputRel(v) ==
    IF v = "C" THEN <<"scripts", "/", "felt", "/", "lib">>
    ELSE <<"python", "/", "felt", "/", "lib">>

\* Variant B calls cythonize(extensions) with no output_dir (lines 21-24).
HasOutputDir(v) == v # "B"

\* Variant B declares the stub alone (lines 8-19).
DeclaresBridge(v) == v # "B"

\* Every relative literal of the three descriptors.
RelLiterals ==
    {StubSource, BridgeSource}
    \cup {StubIncludeRel(v) : v \in Variants}
    \cup UNION {Range(BridgeIncludeRels(v)) : v \in Variants}
    \cup UNION {Range(BridgeLibraryRels(v)) : v \in Variants}
    \cup {OutputRel(v) : v \in Variants}

NoSetup == [called |-> FALSE, name |-> "", gdb_debug |-> FALSE, output_dir |-> Unset]

\* A stub whose include directory was left relative, not joined to the root.
StubExtensionUnrooted(v, root) ==
    [name               |-> "tests.lib.PyStubTemplate",
     sources            |-> <<StubSource>>,
     include_dirs       |-> <<StubIncludeRel(v)>>,
     library_dirs       |-> <<>>,
     libraries          |-> <<>>,
     language           |-> "c++",
     extra_compile_args |-> <<>>,
     extra_link_args    |-> <<>>]

\* Extension("tests.lib.PyStubTemplate", ...), lines 9-18.
StubExtension(v, root) ==
    [name               |-> "tests.lib.PyStubTemplate",
     sources            |-> <<StubSource>>,
     include_dirs       |-> <<Join(root, StubIncludeRel(v)).path>>,
     library_dirs       |-> <<>>,
     libraries          |-> <<>>,
     language           |-> "c++",
     extra_compile_args |-> <<>>,
     extra_link_args    |-> <<>>]

\* Extension("lib.PyRktSFMLInterface", ...), lines 19-40.
BridgeExtension(v, root) ==
    [name               |-> "lib.PyRktSFMLInterface",
     sources            |-> <<BridgeSource>>,
     include_dirs       |-> [i \in 1..2 |-> Join(root, BridgeIncludeRels(v)[i]).path],
     library_dirs       |-> [i \in 1..2 |-> Join(root, BridgeLibraryRels(v)[i]).path],
     libraries          |-> BridgeLibraries(v),
     language           |-> "c++",
     extra_compile_args |-> <<"-g">>,
     extra_link_args    |-> <<"-g">>]

\* The packaging step: one artifact per declared extension, placed in the output
\* directory when one is configured and beside its source otherwise.
Cythonize(exts, output_dir) ==
    {[module |-> e.name,
      dir    |-> IF output_dir.is_none THEN Dirname(e.sources[1]) ELSE output_dir.path]
        : e \in Range(exts)}

\* ------------------------------------------------------------------ the test

\* The test about to run, in every environment the model covers: the content of
\* assets/blank.rml and whether it loads.  No build descriptor runs.
InitTest ==
    /\ pc = "L12"
    /\ frames = <<"test">>
    /\ locals = [f \in {"test", "doDefaultContext"} |-> <<>>]
    /\ released = <<>>
    /\ calls = <<>>
    /\ window = NoWindow
    /\ rktSFML = NoAdapter
    /\ context = NoContext
    /\ document = NoDocument
    /\ exc = "none"
    /\ outcome = "running"
    /\ \E l \in Pads, r \in Pads, body \in {ThisIsBlank, OtherText} :
           blank_rml = l \o body \o r
    /\ fileExists \in BOOLEAN
    /\ env = [PROJECT_DIR |-> Unset, PROJECT_ROOT |-> Unset]
    /\ bpc = [v \in Variants |-> "done"]
    /\ project_dir = [v \in Variants |-> Unset]
    /\ extensions = [v \in Variants |-> <<>>]
    /\ setupCall = [v \in Variants |-> NoSetup]
    /\ artifacts = [v \in Variants |-> {}]
    /\ raisedAt = [v \in Variants |-> 0]

\* The step of a statement that cannot fail: log the call, go to the next line.
Step(call, next) ==
    /\ calls' = Append(calls, call)
    /\ pc' = next
    /\ UNCHANGED <<frames, released, exc, outcome, blank_rml, fileExists>>
    /\ UNCHANGED buildVars

\* An exception leaves the current line: the stack unwinds from here.
Raise(call, e) ==
    /\ calls' = Append(calls, call)
    /\ pc' = "unwind"
    /\ exc' = e
    /\ UNCHANGED <<frames, released, outcome, blank_rml, fileExists>>
    /\ UNCHANGED buildVars

\* An assertion that records nothing and carries on.
AssertNoRaise(call, ok, next) ==
    /\ Step(call, next)
    /\ UNCHANGED <<locals, window, rktSFML, context, document>>

\* unittest's assert*: a false condition raises AssertionError.
Assert_(call, ok, next) ==
    /\ IF ok THEN Step(call, next) ELSE Raise(call, "AssertionError")
    /\ UNCHANGED <<locals, window, rktSFML, context, document>>

\* A constructor that yields a window that is not open.
RenderWindowClosed ==
    /\ pc = "L12"
    /\ window' = [NoWindow EXCEPT !.is_none = FALSE, !.size = <<Width, Height>>]
    /\ locals' = Bind("window")
    /\ Step("RenderWindow", "L13")
    /\ UNCHANGED <<rktSFML, context, document>>

\* line 12: window = sf.RenderWindow(sf.VideoMode(640, 480), "pySFML Window")
RenderWindow ==
    /\ pc = "L12"
    /\ window' = [NoWindow EXCEPT !.is_none = FALSE, !.size = <<Width, Height>>,
                                  !.is_open = TRUE]
    /\ locals' = Bind("window")
    /\ Step("RenderWindow", "L13")
    /\ UNCHANGED <<rktSFML, context, document>>

\* line 13: rktSFML = RktSFML(window)
RktSFML ==
    /\ pc = "L13"
    /\ rktSFML' = [NoAdapter EXCEPT !.is_none = FALSE, !.window = ~window.is_none]
    /\ locals' = Bind("rktSFML")
    /\ Step("RktSFML", "L53")
    /\ UNCHANGED <<window, context, document>>

\* line 53 (lines 16-52 only define the function): doDefaultContext()
doDefaultContext ==
    /\ pc = "L53"
    /\ frames' = Append(frames, "doDefaultContext")
    /\ pc' = "L18"
    /\ UNCHANGED <<locals, released, calls, window, rktSFML, context, document,
                   exc, outcome, blank_rml, fileExists>>
    /\ UNCHANGED buildVars

\* line 18: context = rocket.CreateContext("default", rocket.Vector2i(640, 480))
CreateContext ==
    /\ pc = "L18"
    /\ context' = [NoContext EXCEPT !.is_none = FALSE, !.size = <<Width, Height>>]
    /\ locals' = Bind("context")
    /\ Step("CreateContext", "L19")
    /\ UNCHANGED <<window, rktSFML, document>>

\* line 19: rktSFML.rktInit(context)
rktInit ==
    /\ pc = "L19"
    /\ rktSFML' = [rktSFML EXCEPT !.context = ~context.is_none]
    /\ Step("rktInit", "L22")
    /\ UNCHANGED <<locals, window, context, document>>

\* Line 22 commented out: the test goes from rktInit straight to LoadDocument.
rktInitDebuggerSkipped ==
    /\ pc = "L22"
    /\ pc' = "L23"
    /\ UNCHANGED <<frames, locals, released, calls, window, rktSFML, context,
                   document, exc, outcome, blank_rml, fileExists>>
    /\ UNCHANGED buildVars

\* line 22: rktSFML.rktInitDebugger()
rktInitDebugger ==
    /\ pc = "L22"
    /\ rktSFML' = [rktSFML EXCEPT !.debugger = TRUE]
    /\ Step("rktInitDebugger", "L23")
    /\ UNCHANGED <<locals, window, context, document>>

\* line 23: document = context.LoadDocument('assets/blank.rml')
LoadDocument ==
    /\ pc = "L23"
    /\ document' = IF fileExists
                   THEN [NoDocument EXCEPT !.is_none = FALSE, !.inner_rml = blank_rml]
                   ELSE NoDocument
    /\ locals' = Bind("document")
    /\ Step("LoadDocument", "L25")
    /\ UNCHANGED <<window, rktSFML, context>>

\* line 25: self.assertIsNotNone(document)
assertIsNotNone ==
    /\ pc = "L25"
    /\ Assert_("assertIsNotNone", ~document.is_none, "L27")

\* line 27: document.Show()
Show ==
    /\ pc = "L27"
    /\ IF document.is_none
       THEN Raise("Show", "AttributeError") /\ UNCHANGED document
       ELSE Step("Show", "L29") /\ document' = [document EXCEPT !.shown = TRUE]
    /\ UNCHANGED <<locals, window, rktSFML, context>>

\* line 29: self.assertTrue(window.is_open)
assertTrue ==
    /\ pc = "L29"
    /\ Assert_("assertTrue", window.is_open, "L31")

\* line 31: context.Update()
Update ==
    /\ pc = "L31"
    /\ context' = [context EXCEPT !.updated = TRUE]
    /\ Step("Update", "L32")
    /\ UNCHANGED <<locals, window, rktSFML, document>>

\* line 32: window.clear()
clear ==
    /\ pc = "L32"
    /\ window' = [window EXCEPT !.cleared = TRUE]
    /\ Step("clear", "L33")
    /\ UNCHANGED <<locals, rktSFML, context, document>>

\* line 33: context.Render()
Render ==
    /\ pc = "L33"
    /\ context' = [context EXCEPT !.rendered = TRUE]
    /\ Step("Render", "L34")
    /\ UNCHANGED <<locals, window, rktSFML, document>>

\* line 34: window.display()
display ==
    /\ pc = "L34"
    /\ window' = [window EXCEPT !.displayed = TRUE]
    /\ Step("display", "L36")
    /\ UNCHANGED <<locals, rktSFML, context, document>>

\* line 36: window.close()
close ==
    /\ pc = "L36"
    /\ window' = [window EXCEPT !.is_open = FALSE]
    /\ Step("close", "L39")
    /\ UNCHANGED <<locals, rktSFML, context, document>>

\* line 39: self.assertEqual(document.inner_rml.strip(), "This is blank")
assertEqual ==
    /\ pc = "L39"
    /\ Assert_("assertEqual", Strip(document.inner_rml) = ThisIsBlank, "return")

\* Leaving a frame drops its locals, in the order they were bound.
PopFrame ==
    /\ frames' = SubSeq(frames, 1, Len(frames) - 1)
    /\ released' = released \o locals[frames[Len(frames)]]
    /\ locals' = [locals EXCEPT ![frames[Len(frames)]] = <<>>]

\* The end of a function body: doDefaultContext returns to line 53, whose return
\* ends the test.
Return ==
    /\ pc = "return"
    /\ frames # <<>>
    /\ PopFrame
    /\ outcome' = IF Len(frames) = 1 THEN "passed" ELSE outcome
    /\ pc' = IF Len(frames) = 1 THEN "exited" ELSE "return"
    /\ UNCHANGED <<calls, window, rktSFML, context, document, exc, blank_rml, fileExists>>
    /\ UNCHANGED buildVars

\* An exception nobody catches: the frames are left innermost first; the runner
\* reports an AssertionError as a failure, anything else as an error.
Unwind ==
    /\ pc = "unwind"
    /\ frames # <<>>
    /\ PopFrame
    /\ outcome' = IF Len(frames) > 1 THEN outcome
                  ELSE IF exc = "AssertionError" THEN "failed" ELSE "error"
    /\ pc' = IF Len(frames) = 1 THEN "exited" ELSE "unwind"
    /\ UNCHANGED <<calls, window, rktSFML, context, document, exc, blank_rml, fileExists>>
    /\ UNCHANGED buildVars

NextTest ==
    \/ RenderWindow
    \/ RktSFML
    \/ doDefaultContext
    \/ CreateContext
    \/ rktInit
    \/ rktInitDebugger
    \/ LoadDocument
    \/ assertIsNotNone
    \/ Show
    \/ assertTrue
    \/ Update
    \/ clear
    \/ Render
    \/ display
    \/ close
    \/ assertEqual
    \/ Return
    \/ Unwind

\* The integration test, run once.
SpecTest == InitTest /\ [][NextTest]_vars

\* The interpreter runs the test's statements one after the other.
FairSpecTest == SpecTest /\ WF_vars(NextTest)

\* ------------------------------------------------------------------ the build

\* The three descriptors about to run, in every environment the model covers:
\* each root variable unset or set to one of Roots.  The test does not run.
InitBuild ==
    /\ env \in [PROJECT_DIR : {Unset} \cup {Set(r) : r \in Roots},
                PROJECT_ROOT : {Unset} \cup {Set(r) : r \in Roots}]
    /\ bpc = [v \in Variants |-> "L6"]
    /\ project_dir = [v \in Variants |-> Unset]
    /\ extensions = [v \in Variants |-> <<>>]
    /\ setupCall = [v \in Variants |-> NoSetup]
    /\ artifacts = [v \in Variants |-> {}]
    /\ raisedAt = [v \in Variants |-> 0]
    /\ pc = "exited"
    /\ frames = <<>>
    /\ locals = [f \in {"test", "doDefaultContext"} |-> <<>>]
    /\ released = <<>>
    /\ calls = <<>>
    /\ window = NoWindow
    /\ rktSFML = NoAdapter
    /\ context = NoContext
    /\ document = NoDocument
    /\ exc = "none"
    /\ outcome = "running"
    /\ blank_rml = <<>>
    /\ fileExists = FALSE

\* A lookup that falls back to the current directory when the variable is unset.
EnvGetDefault(name) == IF env[name].is_none THEN Set(<<".">>) ELSE env[name]

\* os.environ.get(name): the value, or None when the variable is unset.
EnvGet(name) == env[name]

\* An exception ends the descriptor at this line.
RaiseAt(v, line) ==
    /\ raisedAt' = [raisedAt EXCEPT ![v] = line]
    /\ bpc' = [bpc EXCEPT ![v] = "raised"]

\* line 6: project_dir = os.environ.get("PROJECT_DIR") (PROJECT_ROOT in variant C)
ReadEnv(v) ==
    /\ bpc[v] = "L6"
    /\ project_dir' = [project_dir EXCEPT ![v] = EnvGet(RootVar(v))]
    /\ bpc' = [bpc EXCEPT ![v] = "L9"]
    /\ UNCHANGED <<env, extensions, setupCall, artifacts, raisedAt>>
    /\ UNCHANGED testVars

\* lines 9-18: the stub's declaration; its one join is at line 15.
DeclareStub(v) ==
    /\ bpc[v] = "L9"
    /\ IF Join(project_dir[v], StubIncludeRel(v)).raises
       THEN RaiseAt(v, 15) /\ UNCHANGED extensions
       ELSE /\ extensions' = [extensions EXCEPT
                                 ![v] = Append(@, StubExtension(v, project_dir[v]))]
            /\ bpc' = [bpc EXCEPT ![v] = IF DeclaresBridge(v) THEN "L19" ELSE "setup"]
            /\ UNCHANGED raisedAt
    /\ UNCHANGED <<env, project_dir, setupCall, artifacts>>
    /\ UNCHANGED testVars

\* lines 19-40: the bridge's declaration; its first join is at line 25.
DeclareBridge(v) ==
    /\ bpc[v] = "L19"
    /\ IF Join(project_dir[v], BridgeIncludeRels(v)[1]).raises
       THEN RaiseAt(v, 25) /\ UNCHANGED extensions
       ELSE /\ extensions' = [extensions EXCEPT
                                 ![v] = Append(@, BridgeExtension(v, project_dir[v]))]
            /\ bpc' = [bpc EXCEPT ![v] = "setup"]
            /\ UNCHANGED raisedAt
    /\ UNCHANGED <<env, project_dir, setupCall, artifacts>>
    /\ UNCHANGED testVars

\* The output_dir argument of cythonize: the join of line 48, or none (variant B).
OutputDir(v) ==
    IF HasOutputDir(v) THEN Set(Join(project_dir[v], OutputRel(v)).path) ELSE Unset

\* lines 44-50 (21-24 in variant B): setup(name="felt", ext_modules=cythonize(...))
Setup(v) ==
    /\ bpc[v] = "setup"
    /\ IF HasOutputDir(v) /\ Join(project_dir[v], OutputRel(v)).raises
       THEN RaiseAt(v, 48) /\ UNCHANGED <<setupCall, artifacts>>
       ELSE /\ setupCall' = [setupCall EXCEPT
                                ![v] = [called |-> TRUE, name |-> "felt",
                                        gdb_debug |-> HasOutputDir(v),
                                        output_dir |-> OutputDir(v)]]
            /\ artifacts' = [artifacts EXCEPT ![v] = Cythonize(extensions[v], OutputDir(v))]
            /\ bpc' = [bpc EXCEPT ![v] = "done"]
            /\ UNCHANGED raisedAt
    /\ UNCHANGED <<env, project_dir, extensions>>
    /\ UNCHANGED testVars

NextBuild ==
    \/ \E v \in Variants : ReadEnv(v)
    \/ \E v \in Variants : DeclareStub(v)
    \/ \E v \in Variants : DeclareBridge(v)
    \/ \E v \in Variants : Setup(v)

\* The three build descriptors, each run once, in any interleaving.
SpecBuild == InitBuild /\ [][NextBuild]_vars

\* ------------------------------------------------------------------ properties

\* The calls of the test in the order of its lines 12-39.
FullOrder ==
    <<"RenderWindow", "RktSFML", "CreateContext", "rktInit", "rktInitDebugger",
      "LoadDocument", "assertIsNotNone", "Show", "assertTrue", "Update", "clear",
      "Render", "display", "close", "assertEqual">>

\* The same order with the debugger initialisation left out.
OrderWithoutDebugger ==
    <<"RenderWindow", "RktSFML", "CreateContext", "rktInit",
      "LoadDocument", "assertIsNotNone", "Show", "assertTrue", "Update", "clear",
      "Render", "display", "close", "assertEqual">>

LastCall == calls[Len(calls)]

\* blank.rml holds the text "This is blank", possibly inside whitespace.
HoldsThisIsBlank == \E l \in Pads, r \in Pads : blank_rml = l \o ThisIsBlank \o r

\* C1: when blank.rml holds the text "This is blank", a run that reaches the final
\* assertion has made one load, Show, Update, clear, Render, display cycle and has
\* closed the window, and the document's inner_rml with its leading and trailing
\* whitespace stripped is exactly "This is blank": the assertion does not raise.
C1_StrippedTextIsThisIsBlank ==
    (HoldsThisIsBlank /\ (pc = "L39" \/ Called("assertEqual"))) =>
        /\ SubSeq(calls, 6, 14) = SubSeq(FullOrder, 6, 14)
        /\ ~window.is_open
        /\ Strip(document.inner_rml) = ThisIsBlank
        /\ exc = "none"

\* C1 witness: the final assertion has passed on a document whose text was padded.
C1_Witness ==
    /\ HoldsThisIsBlank
    /\ blank_rml # ThisIsBlank
    /\ Called("assertEqual")
    /\ pc = "return"
    /\ ~window.is_open

Names(v) == {e.name : e \in Range(extensions[v])}

Bridge(v) == CHOOSE e \in Range(extensions[v]) : e.name = "lib.PyRktSFMLInterface"

SharedLibraries ==
    {"RocketCore", "RocketControls", "RocketDebugger",
     "sfml-window", "sfml-system", "sfml-graphics"}

\* C3: once variants A and C have both run, they declare the same module names
\* (the stub and the bridge), and the bridge's libraries are the same list in both
\* but for one entry, the bridge library's own name: Felt in A, RktSFMLInterface
\* in C; the other six are the Rocket and SFML libraries.
C3_SameModulesSameLibraries ==
    (bpc["A"] = "done" /\ bpc["C"] = "done") =>
        /\ Names("A") = {"tests.lib.PyStubTemplate", "lib.PyRktSFMLInterface"}
        /\ Names("C") = Names("A")
        /\ Len(extensions["A"]) = 2 /\ Len(extensions["C"]) = 2
        /\ LET la == Bridge("A").libraries
               lc == Bridge("C").libraries
           IN  /\ Len(la) = Len(lc)
               /\ {i \in 1..Len(la) : la[i] # lc[i]} = {1}
               /\ la[1] = "Felt" /\ lc[1] = "RktSFMLInterface"
               /\ Range(la) \ {"Felt"} = SharedLibraries
               /\ Range(lc) \ {"RktSFMLInterface"} = SharedLibraries

\* C3 witness: A and C have both run to their end with the same root, /repo.
C3_Witness ==
    /\ bpc["A"] = "done" /\ bpc["C"] = "done"
    /\ env.PROJECT_DIR = Set(Repo) /\ env.PROJECT_ROOT = Set(Repo)
    /\ Len(extensions["A"]) = 2 /\ Len(extensions["C"]) = 2

\* A path is under a directory: it is the directory or lies below it.
Under(dir, p) == p = dir \/ IsPrefix(dir \o <<"/">>, p)

RepoLib == <<"/", "repo", "/", "python", "/", "felt", "/", "lib">>

\* C4: with PROJECT_DIR=/repo, variant A produces exactly two artifacts, both under
\* /repo/python/felt/lib/, and variant B exactly one, the stub, also under
\* /repo/python/felt/lib/.
C4_ArtifactsUnderRepoLib ==
    env.PROJECT_DIR = Set(Repo) =>
        /\ bpc["A"] = "done" =>
               /\ Cardinality(artifacts["A"]) = 2
               /\ \A a \in artifacts["A"] : Under(RepoLib, a.dir)
        /\ bpc["B"] = "done" =>
               /\ Cardinality(artifacts["B"]) = 1
               /\ \A a \in artifacts["B"] :
                      a.module = "tests.lib.PyStubTemplate" /\ Under(RepoLib, a.dir)

\* The root followed by a relative literal of the descriptors, with one separator
\* between them.
DerivedFromRoot(v, p) ==
    /\ ~env[RootVar(v)].is_none
    /\ LET root == env[RootVar(v)].path
           base == IF root = <<>> \/ root[Len(root)] = "/" THEN root
                   ELSE root \o <<"/">>
       IN  \E rel \in RelLiterals : p = base \o rel

\* The include and library directories of every declared target, and the output
\* directory where one is configured, are derived from the variant's root, which
\* is the environment's value as it is.
RootedDirectories ==
    \A v \in Variants :
        /\ bpc[v] # "L6" => project_dir[v] = env[RootVar(v)]
        /\ \A e \in Range(extensions[v]) :
               \A d \in Range(e.include_dirs) \cup Range(e.library_dirs) :
                   DerivedFromRoot(v, d)
        /\ (setupCall[v].called /\ ~setupCall[v].output_dir.is_none) =>
               DerivedFromRoot(v, setupCall[v].output_dir.path)

\* C5 as stated: in every variant every include directory, library directory,
\* source and output path of every declared target is derived from the root.
C5_EveryPathDerivedFromRoot ==
    /\ RootedDirectories
    /\ \A v \in Variants : \A e \in Range(extensions[v]) :
           \A src \in Range(e.sources) : DerivedFromRoot(v, src)

\* C5 as amended: every include directory and library directory of every declared
\* target, and the output directory of variants A and C (variant B configures
\* none), is derived from the root by path join, the root being the environment's
\* value with no default and no validation; the source paths are the fixed
\* relative literals tests/lib/PyStubTemplate.pyx and lib/PyRktSFMLInterface.pyx,
\* whatever the root.
C5_DirectoriesDerivedSourcesFixed ==
    /\ RootedDirectories
    /\ \A v \in Variants :
           /\ \A e \in Range(extensions[v]) :
                  e.sources \in {<<StubSource>>, <<BridgeSource>>}
           /\ setupCall[v].called => (setupCall[v].output_dir.is_none <=> v = "B")

\* C5 witness: the three descriptors have run to their end with roots /repo and
\* /repo/.
C5_Witness ==
    /\ \A v \in Variants : bpc[v] = "done"
    /\ env.PROJECT_DIR = Set(Repo)
    /\ env.PROJECT_ROOT = Set(Repo \o <<"/">>)

\* C6 as stated: the calls follow the fixed order, and the debugger initialisation
\* is a step the run may leave out: after rktInit the test can go on with
\* LoadDocument.
C6_DebuggerOptional ==
    /\ IsPrefix(calls, FullOrder) \/ IsPrefix(calls, OrderWithoutDebugger)
    /\ pc = "L22" => ENABLED LoadDocument

\* C6 as amended: the calls made so far are always a prefix of the one fixed order
\* RenderWindow, RktSFML, CreateContext (of the window's size), rktInit,
\* rktInitDebugger, LoadDocument, assertIsNotNone, Show, assertTrue, Update, clear,
\* Render, display, close, assertEqual; the debugger initialisation is a step of
\* that order, made in every run between rktInit and LoadDocument, and a run that
\* reaches the final assertion has made every call exactly once.
C6_FixedOrderWithDebugger ==
    /\ IsPrefix(calls, FullOrder)
    /\ ~context.is_none => context.size = window.size
    /\ Called("LoadDocument") => rktSFML.debugger
    /\ pc = "L39" => \A c \in Range(FullOrder) \ {"assertEqual"} : Count(c) = 1
    /\ Called("assertEqual") => calls = FullOrder

\* C6 witness: the final assertion has run after the fourteen calls before it.
C6_Witness == Called("assertEqual") /\ calls = FullOrder /\ rktSFML.debugger

\* The first false assertion raises, and nothing runs after it.
FailFast ==
    /\ (Called("assertIsNotNone") /\ document.is_none) =>
           exc = "AssertionError" /\ LastCall = "assertIsNotNone"
    /\ (Called("assertTrue") /\ ~Called("close") /\ ~window.is_open) =>
           exc = "AssertionError" /\ LastCall = "assertTrue"
    /\ (Called("assertEqual") /\ Strip(document.inner_rml) # ThisIsBlank) =>
           exc = "AssertionError" /\ LastCall = "assertEqual"
    /\ \A c \in Range(calls) : Count(c) = 1
    /\ outcome \in {"running", "passed", "failed"}
    /\ outcome = "failed" => exc = "AssertionError" /\ pc = "exited"
    /\ outcome = "passed" => exc = "none" /\ calls = FullOrder /\ pc = "exited"

\* C7: the first false assertion (document is None, window not open, text
\* mismatch) raises and is the last call of the run: no later step runs and no step
\* runs twice; the outcome, once reported, stays; and every run ends reported
\* either as failed, at an assertion, or as passed, the whole sequence done.
C7_FailFastSingleShot ==
    /\ []FailFast
    /\ [][(exc # "none" => calls' = calls) /\ (outcome # "running" => outcome' = outcome)]_vars
    /\ <>(outcome \in {"passed", "failed"})

\* C7 witness: a run that failed at the first assertion and made no later call.
C7_Witness ==
    /\ outcome = "failed"
    /\ document.is_none
    /\ LastCall = "assertIsNotNone"
    /\ window.is_open

\* C8: on every exit path of the test function, the successful one and those that
\* leave through a failed assertion, window.close() has been called and the window
\* is closed by the time the function has exited.
C8_WindowClosedOnEveryExit ==
    pc = "exited" => Called("close") /\ ~window.is_open

Position(obj) == CHOOSE i \in 1..Len(released) : released[i] = obj

\* C9: on every exit path, normal return or an assertion failure raised inside
\* doDefaultContext, the context is released strictly before the bridge adapter:
\* the adapter is never released while the context is still held, and once the
\* test has exited both have been released, the context first.
C9_ContextReleasedBeforeAdapter ==
    /\ "rktSFML" \in Range(released) =>
           /\ "context" \in Range(released)
           /\ Position("context") < Position("rktSFML")
    /\ pc = "exited" => {"context", "rktSFML"} \subseteq Range(released)
    /\ \A i, j \in 1..Len(released) : released[i] = released[j] => i = j

\* C9 witness: the test left through a failed assertion and released the context
\* and the document before the window and the adapter.
C9_Witness ==
    /\ pc = "exited"
    /\ exc = "AssertionError"
    /\ released = <<"context", "document", "window", "rktSFML">>

\* C10: in each variant, when its root variable is unset the descriptor validates
\* nothing, raises at its first join (line 15) and stops there: no extension is
\* declared, setup/cythonize is never called and no artifact is written.
C10_UnsetRootStopsAtFirstJoin ==
    \A v \in Variants :
        (env[RootVar(v)].is_none /\ bpc[v] # "L6") =>
            /\ project_dir[v].is_none
            /\ bpc[v] \in {"L9", "raised"}
            /\ bpc[v] = "raised" => raisedAt[v] = 15
            /\ extensions[v] = <<>>
            /\ ~setupCall[v].called
            /\ artifacts[v] = {}

\* C10 witness: with both variables unset the three descriptors have raised.
C10_Witness ==
    /\ env.PROJECT_DIR.is_none /\ env.PROJECT_ROOT.is_none
    /\ \A v \in Variants : bpc[v] = "raised" /\ raisedAt[v] = 15

====
